---------------------------- MODULE Spec2Model ----------------------------
(***************************************************************************)
(* A load of docs/source/conf.py, the Sphinx configuration script of       *)
(* libvxsdr.  The script is straight-line Python: it imports subprocess,   *)
(* runs `doxygen` through the shell with subprocess.call and discards the  *)
(* result, then binds fifteen module-level names.                          *)
(*                                                                         *)
(* The state is the module namespace being built, the position of the      *)
(* interpreter in the file, and the doxygen child process as the operating *)
(* system sees it (how many were spawned, whether the interpreter is       *)
(* blocked in subprocess.call, and the child's exit status once it has     *)
(* one).                                                                   *)
(***************************************************************************)
EXTENDS Integers, Sequences, FiniteSets, TLC

VARIABLES
    pc,          \* index in Program of the next statement; Done past the last
    ns,          \* module namespace: function from bound names to objects
    raised,      \* TRUE once an exception has propagated out of the load
    spawned,     \* number of doxygen processes started so far
    waiting,     \* TRUE while the interpreter is inside subprocess.call
    returncode   \* {} while the child has no exit status, {s} once it exited

vars == <<pc, ns, raised, spawned, waiting, returncode>>

---------------------------------------------------------------------------
(* Bounds of the model: the exit statuses and signals the child may end    *)
(* with.                                                                   *)
MaxStatus == 3
MaxSignal == 2

(* Exit status of `sh -c doxygen` when the shell cannot find the binary.   *)
ShellNotFound == 127

(* What subprocess.call can return for a shell child: its exit status, 127 *)
(* when the command is not found, or -N when the shell died on signal N.   *)
Statuses ==
    (0..MaxStatus) \cup {ShellNotFound} \cup {0 - s : s \in 1..MaxSignal}

---------------------------------------------------------------------------
(* The values the script assigns, under the names the script gives them.   *)
project == "libvxsdr"

copyright == "2024, Vesperix Corporation"

author == "Vesperix Corporation"

(* a release string left at the previous version *)
release_stale == "0.19.6"

release == "0.19.7"

extensions == <<"sphinx.ext.mathjax", "breathe">>

breathe_projects == [vxsdr |-> "../xml/"]

(* a default project named after the library instead of the breathe tag *)
breathe_default_project_unmapped == "libvxsdr"

breathe_default_project == "vxsdr"

templates_path == <<"_templates">>

exclude_patterns == <<>>

html_theme == "furo"

html_theme_options == [k \in {} |-> ""]

latex_engine == "pdflatex"

html_css_files == <<"custom.css">>

html_static_path == <<"_static">>

(* a logo path written without its directory *)
html_logo_unprefixed == "vesperix_logo.png"

html_logo == "_static/vesperix_logo.png"

(* The statements of conf.py in file order.                                *)
Program == <<
    [line |-> 10, kind |-> "import", name |-> "subprocess", value |-> "subprocess"],
    [line |-> 11, kind |-> "call",   name |-> "subprocess.call", value |-> "doxygen"],
    [line |-> 16, kind |-> "assign", name |-> "project", value |-> project],
    [line |-> 17, kind |-> "assign", name |-> "copyright", value |-> copyright],
    [line |-> 18, kind |-> "assign", name |-> "author", value |-> author],
    [line |-> 21, kind |-> "assign", name |-> "release", value |-> release],
    [line |-> 27, kind |-> "assign", name |-> "extensions", value |-> extensions],
    [line |-> 29, kind |-> "assign", name |-> "breathe_projects", value |-> breathe_projects],
    [line |-> 31, kind |-> "assign", name |-> "breathe_default_project", value |-> breathe_default_project],
    [line |-> 34, kind |-> "assign", name |-> "templates_path", value |-> templates_path],
    [line |-> 39, kind |-> "assign", name |-> "exclude_patterns", value |-> exclude_patterns],
    [line |-> 48, kind |-> "assign", name |-> "html_theme", value |-> html_theme],
    [line |-> 49, kind |-> "assign", name |-> "html_theme_options", value |-> html_theme_options],
    [line |-> 53, kind |-> "assign", name |-> "latex_engine", value |-> latex_engine],
    [line |-> 56, kind |-> "assign", name |-> "html_css_files", value |-> html_css_files],
    [line |-> 63, kind |-> "assign", name |-> "html_static_path", value |-> html_static_path],
    [line |-> 64, kind |-> "assign", name |-> "html_logo", value |-> html_logo] >>

Done == Len(Program) + 1

---------------------------------------------------------------------------
(* Objects a name can be bound to: an imported module or a data value.     *)
Module(m) == [kind |-> "module", val |-> m]

Data(v) == [kind |-> "data", val |-> v]

(* Python name binding: binds name to obj, rebinding it if already bound,  *)
(* and leaves every other binding alone.                                   *)
Bind(n, name, obj) ==
    [k \in DOMAIN n \cup {name} |-> IF k = name THEN obj ELSE n[k]]

(* Popen without wait: control comes back while the child still runs.     *)
wait_nonblocking(rc) == TRUE

(* subprocess.call waits for the child: it returns only once the child has *)
(* an exit status; there is no timeout argument.                           *)

wait(rc) == rc # {}

(* subprocess.check_call: raises CalledProcessError on a non-zero status.  *)
subprocess_check_call(rc) == [raise |-> rc \notin {{}, {0}}, value |-> rc]

(* subprocess.call returns the child's status and raises for none.         *)

subprocess_call(rc) == [raise |-> FALSE, value |-> rc]

(* returncode = subprocess.call(...): the status kept in the namespace.   *)
AssignResult(n, result) == Bind(n, "returncode", Data(result.value))

(* Line 11 is an expression statement: the value of the call is dropped.   *)

ExprStmt(n, result) == n

(* A loop around the call that runs it again until it succeeds.           *)
SuccessorRetry(i, result) ==
    IF Program[i].kind = "call" /\ result.value # {0} THEN i ELSE i + 1

(* Control flow is straight-line: the statement after i is i + 1, whatever *)
(* statement i produced.                                                   *)

Successor(i, result) == i + 1

NoResult == [raise |-> FALSE, value |-> {}]

(* One statement: executing Program[i] in namespace n, with rc the exit    *)
(* status of the child, gives the next position, the namespace and whether *)
(* an exception left the module.                                           *)
Exec(i, n, rc) ==
    LET st == Program[i] IN
    CASE st.kind = "import" ->
           [pc |-> Successor(i, NoResult),
            ns |-> Bind(n, st.name, Module(st.value)),
            raised |-> FALSE]
      [] st.kind = "call" ->
           LET result == subprocess_call(rc) IN
           [pc |-> IF result.raise THEN i ELSE Successor(i, result),
            ns |-> IF result.raise THEN n ELSE ExprStmt(n, result),
            raised |-> result.raise]
      [] st.kind = "assign" ->
           [pc |-> Successor(i, NoResult),
            ns |-> Bind(n, st.name, Data(st.value)),
            raised |-> FALSE]

EmptyNamespace == [k \in {} |-> Data("")]

(* The whole load as a function of the child's exit status: the namespace  *)
(* left when the statements from i on run in namespace n.                  *)
RECURSIVE LoadFrom(_, _, _)
LoadFrom(i, n, rc) ==
    IF i = Done
    THEN n
    ELSE LET e == Exec(i, n, rc) IN
         IF e.raised THEN e.ns ELSE LoadFrom(e.pc, e.ns, rc)

---------------------------------------------------------------------------
Init ==
    /\ pc = 1
    /\ ns = EmptyNamespace
    /\ raised = FALSE
    /\ spawned = 0
    /\ waiting = FALSE
    /\ returncode = {}

Running == pc # Done /\ ~raised

(* line 10: import subprocess *)
Import ==
    /\ Running
    /\ Program[pc].kind = "import"
    /\ LET e == Exec(pc, ns, returncode) IN
         /\ pc' = e.pc
         /\ ns' = e.ns
         /\ raised' = e.raised
    /\ UNCHANGED <<spawned, waiting, returncode>>

(* line 11, first half: subprocess.call starts the shell child *)
Spawn ==
    /\ Running
    /\ Program[pc].kind = "call"
    /\ ~waiting
    /\ spawned' = spawned + 1
    /\ waiting' = TRUE
    /\ returncode' = {}
    /\ UNCHANGED <<pc, ns, raised>>

(* the environment: the running child ends with status s *)
Exit(s) ==
    /\ spawned > 0
    /\ returncode = {}
    /\ returncode' = {s}
    /\ UNCHANGED <<pc, ns, raised, spawned, waiting>>

(* line 11, second half: subprocess.call returns and the statement ends *)
Return ==
    /\ Running
    /\ Program[pc].kind = "call"
    /\ waiting
    /\ wait(returncode)
    /\ LET e == Exec(pc, ns, returncode) IN
         /\ pc' = e.pc
         /\ ns' = e.ns
         /\ raised' = e.raised
    /\ waiting' = FALSE
    /\ UNCHANGED <<spawned, returncode>>

(* lines 16..64: name = value *)
Assign ==
    /\ Running
    /\ Program[pc].kind = "assign"
    /\ LET e == Exec(pc, ns, returncode) IN
         /\ pc' = e.pc
         /\ ns' = e.ns
         /\ raised' = e.raised
    /\ UNCHANGED <<spawned, waiting, returncode>>

ChildExits == \E s \in Statuses : Exit(s)

Step == Import \/ Spawn \/ Return \/ Assign

Next == Import \/ Spawn \/ ChildExits \/ Return \/ Assign

Spec == Init /\ [][Next]_vars

(* The interpreter keeps executing statements; nothing obliges the child   *)
(* to exit.                                                                *)
FairSpec == Init /\ [][Next]_vars /\ WF_vars(Step)

---------------------------------------------------------------------------
(* Vocabulary of the properties.                                           *)

(* The configuration options defined so far: the names bound to data.  The *)
(* name `subprocess`, bound to a module by the import, is not one.         *)
DefinedOptions == {k \in DOMAIN ns : ns[k].kind = "data"}

(* The options the renderer recognises, as the specification lists them.   *)
RecognizedOptions ==
    {"project", "author", "copyright", "release", "extensions",
     "breathe_projects", "breathe_default_project", "templates_path",
     "html_static_path", "exclude_patterns", "html_theme",
     "html_theme_options", "html_css_files", "html_logo", "latex_engine"}

(* The position of the doxygen call in the program.                        *)
CallIndex == CHOOSE i \in 1..Len(Program) : Program[i].kind = "call"

(* The child has been started and subprocess.call has come back.           *)
CallReturned == spawned > 0 /\ ~waiting

(* The namespace a load leaves when doxygen exits with status 0.           *)
SuccessfulLoad == LoadFrom(1, EmptyNamespace, {0})

(* path names a file below directory dir *)
InsideDir(path, dir) ==
    /\ Len(path) > Len(dir) + 1
    /\ SubSeq(path, 1, Len(dir) + 1) = dir \o "/"

---------------------------------------------------------------------------
(* C1: whatever the child's exit status (0, non-zero, 127 for a binary the *)
(* shell cannot find, death on a signal), no exception leaves the load,    *)
(* control is past the call once it has returned, every binding made is    *)
(* the one a load with a successful doxygen makes (so the status is stored *)
(* nowhere), and the finished load has exactly that load's namespace.      *)
C1_FailureIgnored ==
    /\ ~raised
    /\ (CallReturned => pc > CallIndex)
    /\ DOMAIN ns \subseteq DOMAIN SuccessfulLoad
    /\ \A k \in DOMAIN ns : ns[k] = SuccessfulLoad[k]
    /\ (pc = Done => ns = SuccessfulLoad)

C1_Witness ==
    /\ pc = Done
    /\ returncode = {ShellNotFound}
    /\ ns = SuccessfulLoad

(* C2: doxygen is started at most once, exactly once in a finished load,   *)
(* also when it failed, and it has been started (once) in every state in   *)
(* which some option is defined.                                           *)
C2_InvokedOnceFirst ==
    /\ spawned <= 1
    /\ (DefinedOptions # {} => spawned = 1)
    /\ (pc = Done => spawned = 1)
    /\ (CallReturned => pc # CallIndex)

C2_Witness ==
    /\ pc = Done
    /\ spawned = 1
    /\ \E s \in Statuses \ {0} : returncode = {s}
    /\ DefinedOptions = RecognizedOptions

(* C3: the call blocks.  While the child has no exit status no option is   *)
(* defined and the load is not finished; a finished load implies that the  *)
(* child exited; and once the child has exited the load does finish.  A    *)
(* child that never exits therefore leaves the load unfinished for ever    *)
(* with no option defined.                                                 *)
C3_Blocking ==
    /\ [](returncode = {} => DefinedOptions = {} /\ pc <= CallIndex)
    /\ [](pc = Done => returncode # {})
    /\ [][returncode = {} => DefinedOptions' = {}]_vars
    /\ ((returncode # {}) ~> (pc = Done))

C3_Witness ==
    /\ spawned = 1
    /\ waiting
    /\ returncode = {}
    /\ pc = CallIndex
    /\ DefinedOptions = {}

(* C4: a finished load has defined exactly the recognised options, with    *)
(* the values the specification gives.                                     *)
C4_FinalConfiguration ==
    pc = Done =>
        /\ DefinedOptions = RecognizedOptions
        /\ ns["project"].val = "libvxsdr"
        /\ ns["release"].val = "0.19.7"
        /\ ns["extensions"].val = <<"sphinx.ext.mathjax", "breathe">>
        /\ DOMAIN ns["breathe_projects"].val = {"vxsdr"}
        /\ ns["breathe_projects"].val["vxsdr"] = "../xml/"
        /\ ns["html_theme"].val = "furo"
        /\ ns["html_static_path"].val = <<"_static">>
        /\ ns["latex_engine"].val = "pdflatex"

C4_Witness ==
    /\ pc = Done
    /\ ~raised
    /\ Cardinality(DefinedOptions) = Cardinality(RecognizedOptions)

(* C5: whenever html_logo is defined, html_static_path is defined and the  *)
(* logo path lies inside one of the directories it lists.                  *)
C5_LogoInStaticPath ==
    "html_logo" \in DefinedOptions =>
        /\ "html_static_path" \in DefinedOptions
        /\ \E i \in 1..Len(ns["html_static_path"].val) :
               InsideDir(ns["html_logo"].val, ns["html_static_path"].val[i])

C5_Witness ==
    /\ "html_logo" \in DefinedOptions
    /\ "html_static_path" \in DefinedOptions

(* C6: every step keeps every binding already made, defines at most one    *)
(* new option, and a step of the doxygen call (starting the child, the     *)
(* child exiting, the call returning) changes the namespace not at all.    *)
C6_SetOnce ==
    [][ /\ \A k \in DOMAIN ns : k \in DOMAIN ns' /\ ns'[k] = ns[k]
        /\ Cardinality(DefinedOptions' \ DefinedOptions) <= 1
        /\ \A k \in DefinedOptions' \ DefinedOptions :
               /\ pc # Done
               /\ Program[pc].kind = "assign"
               /\ Program[pc].name = k
               /\ ns' = Bind(ns, k, Data(Program[pc].value))
        /\ (pc = CallIndex => ns' = ns)
        /\ (spawned' # spawned \/ returncode' # returncode => ns' = ns) ]_vars

C6_Witness ==
    /\ CallReturned
    /\ returncode # {}
    /\ Cardinality(DefinedOptions) >= 2
    /\ pc # Done

(* C7: whenever breathe_default_project is defined, breathe_projects is    *)
(* defined and has the default project among its keys.                     *)
C7_DefaultProjectMapped ==
    "breathe_default_project" \in DefinedOptions =>
        /\ "breathe_projects" \in DefinedOptions
        /\ ns["breathe_default_project"].val \in DOMAIN ns["breathe_projects"].val

C7_Witness ==
    /\ "breathe_default_project" \in DefinedOptions
    /\ "html_logo" \notin DefinedOptions

=============================================================================
